---------------------------- MODULE Spec2Model ----------------------------
(***************************************************************************)
(* The dataset store of StatAnalyzer Pro (backend/main.py) and the         *)
(* handlers that read and write it: upload, the analysis requests, and the *)
(* three cleaning families (clean-missing, remove-outliers, scale-data).   *)
(*                                                                         *)
(* A table (pandas DataFrame) is a record                                  *)
(*    [columns |-> <<names>>, dtypes |-> <<dtype per column>>,             *)
(*     rows |-> <<row>>],  row = <<cell per column>>.                      *)
(* A cell is [kind |-> "num" | "str" | "bool" | "date" | "nan", v |-> Int]. *)
(* Numbers are fixed point: v counts 1/Unit, and a division rounds down.   *)
(* Comparisons against quantile and z-score bounds are made exactly, by    *)
(* cross multiplication.  A text cell carries the code of its string.      *)
(* Strings that the code slices or concatenates are sequences: a filename  *)
(* is its bytes, an identifier the one-character strings of its base64     *)
(* prefix followed by the suffixes the derivations append.                 *)
(* An Optional value is a sequence of length <= 1.                         *)
(***************************************************************************)
EXTENDS Integers, Sequences, FiniteSets, TLC

VARIABLES data_store, request, response

vars == <<data_store, request, response>>

\* ------------------------------------------------------------------ bounds

\* Most entries the store holds before the model stops adding new keys.
MaxEntries == 3
\* Subunits per 1.0 in the model's fixed-point numbers.
Unit == 10
\* Most rows of a generated table of SpecClean.
MaxRows == 3
\* Most rows of a generated table of SpecOutliers.
MaxOutlierRows == 4
\* Most columns of a generated table of SpecUpload.
MaxCols == 3

\* --------------------------------------------------------------- constants

IdLength == 16
PreviewRows == 10
CleanPreviewRows == 5
n_neighbors == 5
DefaultThreshold == 3

\* ----------------------------------------------------------------- helpers

None == << >>
Some(x) == <<x>>

Range(s) == {s[i] : i \in 1..Len(s)}

Take(s, n) == SubSeq(s, 1, IF n < Len(s) THEN n ELSE Len(s))

RECURSIVE SumSeq(_)
SumSeq(s) == IF s = << >> THEN 0 ELSE s[1] + SumSeq(Tail(s))

\* The sequence s in ascending order (s holds integers).
RECURSIVE Sorted(_)
Sorted(s) ==
    IF s = << >> THEN << >>
    ELSE LET m == CHOOSE i \in 1..Len(s) : \A j \in 1..Len(s) : s[i] <= s[j]
         IN  <<s[m]>> \o Sorted(SubSeq(s, 1, m - 1) \o SubSeq(s, m + 1, Len(s)))

\* Largest r with r * r <= n, by bisection of lo..hi.
RECURSIVE IsqrtIn(_, _, _)
IsqrtIn(n, lo, hi) ==
    IF lo >= hi THEN lo
    ELSE LET mid == (lo + hi + 1) \div 2
         IN  IF mid * mid <= n THEN IsqrtIn(n, mid, hi) ELSE IsqrtIn(n, lo, mid - 1)

Isqrt(n) == IsqrtIn(n, 0, IF n < 46340 THEN n ELSE 46340)

\* ------------------------------------------------------- strings and bytes

B64Alphabet ==
    <<"A", "B", "C", "D", "E", "F", "G", "H", "I", "J", "K", "L", "M",
      "N", "O", "P", "Q", "R", "S", "T", "U", "V", "W", "X", "Y", "Z",
      "a", "b", "c", "d", "e", "f", "g", "h", "i", "j", "k", "l", "m",
      "n", "o", "p", "q", "r", "s", "t", "u", "v", "w", "x", "y", "z",
      "0", "1", "2", "3", "4", "5", "6", "7", "8", "9", "-", "_">>

\* base64.urlsafe_b64encode: every 3 bytes give 4 characters, "=" pads.
urlsafe_b64encode(bytes) ==
    LET n      == Len(bytes)
        byte(i) == IF i <= n THEN bytes[i] ELSE 0
        group(g) == byte(3 * g + 1) * 65536 + byte(3 * g + 2) * 256 + byte(3 * g + 3)
        sextet(g, k) ==
            CASE k = 0 -> group(g) \div 262144
              [] k = 1 -> (group(g) \div 4096) % 64
              [] k = 2 -> (group(g) \div 64) % 64
              [] OTHER -> group(g) % 64
        char(i) ==
            LET g == (i - 1) \div 4
                k == (i - 1) % 4
            IN  IF (k = 2 /\ 3 * g + 2 > n) \/ (k = 3 /\ 3 * g + 3 > n)
                THEN "="
                ELSE B64Alphabet[sextet(g, k) + 1]
    IN  [i \in 1..(4 * ((n + 2) \div 3)) |-> char(i)]

endswith(bytes, suffix) ==
    /\ Len(suffix) <= Len(bytes)
    /\ SubSeq(bytes, Len(bytes) - Len(suffix) + 1, Len(bytes)) = suffix

ext_csv  == <<46, 99, 115, 118>>
ext_xlsx == <<46, 120, 108, 115, 120>>
ext_xls  == <<46, 120, 108, 115>>

\* ------------------------------------------------------------------ tables

NaN == [kind |-> "nan", v |-> 0]
Num(x) == [kind |-> "num", v |-> x]
Str(c) == [kind |-> "str", v |-> c]
Bool(b) == [kind |-> "bool", v |-> b]
Date(d) == [kind |-> "date", v |-> d]

isna(cell) == cell.kind = "nan"

\* np.number covers the integer and float dtypes.
np_number == {"int64", "float64"}

HasColumn(df, col) == col \in Range(df.columns)

ColIdx(df, col) == CHOOSE i \in 1..Len(df.columns) : df.columns[i] = col

\* df[col] as the sequence of its cells.
Column(df, col) == [i \in 1..Len(df.rows) |-> df.rows[i][ColIdx(df, col)]]

dtype(df, col) == df.dtypes[ColIdx(df, col)]

\* df.select_dtypes(include=...).columns.tolist(): in table order.
select_dtypes(df, include) ==
    LET idx == SelectSeq([i \in 1..Len(df.columns) |-> i],
                         LAMBDA i : df.dtypes[i] \in include)
    IN  [k \in 1..Len(idx) |-> df.columns[idx[k]]]

\* df.dropna(subset=cols): the rows with no missing cell among cols.
dropna(df, subset) ==
    [df EXCEPT !.rows = SelectSeq(df.rows,
        LAMBDA row : \A c \in Range(subset) : ~isna(row[ColIdx(df, c)]))]

\* df.dropna(): the rows with no missing cell at all.
dropna_all(df) == dropna(df, df.columns)

head(df, n) == Take(df.rows, n)

\* -------------------------------------------------------------- responses

HTTPException(status_code, detail) ==
    [status_code |-> status_code, detail |-> detail, body |-> None]

\* Mutant: the lookup failure reported as a bad request.
NotFoundAsBadRequest == HTTPException(400, "Data not found")

\* raise HTTPException(status_code=404, detail="Data not found")
NotFound == HTTPException(404, "Data not found")

\* An exception no handler catches: the framework answers 500.
InternalServerError == HTTPException(500, "Internal Server Error")

OK(body) == [status_code |-> 200, detail |-> "", body |-> Some(body)]

\* ----------------------------------------------------------------- upload

\* pd.read_csv / pd.read_excel: the payload decodes only in its own format.
read_csv(contents) == contents.format = "csv"
read_excel(contents) == contents.format = "excel"

upload_data_id(filename) == Take(urlsafe_b64encode(filename), IdLength)

UploadBody(data_id, file, df) ==
    [data_id |-> data_id,
     filename |-> file.filename,
     rows |-> Len(df.rows),
     columns |-> Len(df.columns),
     numeric_columns |-> select_dtypes(df, np_number),
     categorical_columns |-> select_dtypes(df, {"object"}),
     preview |-> head(df, PreviewRows)]

\* The outer `except Exception` also catches the HTTPException raised inside
\* the try block and re-raises it with status 500 and detail str(e).
UploadResponse(file) ==
    LET parsed ==
            IF endswith(file.filename, ext_csv) THEN read_csv(file.contents)
            ELSE IF endswith(file.filename, ext_xlsx) \/ endswith(file.filename, ext_xls)
                 THEN read_excel(file.contents)
                 ELSE FALSE
        supported == \/ endswith(file.filename, ext_csv)
                     \/ endswith(file.filename, ext_xlsx)
                     \/ endswith(file.filename, ext_xls)
    IN  IF ~supported THEN HTTPException(500, "400: Unsupported file format")
        ELSE IF ~parsed THEN HTTPException(500, "parse error")
        ELSE OK(UploadBody(upload_data_id(file.filename), file, file.contents.table))

\* ---------------------------------------------------------- column values

\* The values of df[col] that are present, in row order.
Present(df, col) == SelectSeq(Column(df, col), LAMBDA cell : ~isna(cell))

Values(df, col) == [i \in 1..Len(Present(df, col)) |-> Present(df, col)[i].v]

\* Series.mean() / Series.median() of a non-empty sequence of values.
mean(vals) == SumSeq(vals) \div Len(vals)

median(vals) ==
    LET s == Sorted(vals)
        n == Len(s)
    IN  IF n % 2 = 1 THEN s[(n + 1) \div 2]
        ELSE (s[n \div 2] + s[n \div 2 + 1]) \div 2

Count(cells, cell) == Cardinality({i \in 1..Len(cells) : cells[i] = cell})

\* Series.mode()[0]: the most frequent present cell, the smallest on a tie.
mode(cells) ==
    CHOOSE c \in Range(cells) :
        \A d \in Range(cells) :
            \/ Count(cells, d) < Count(cells, c)
            \/ Count(cells, d) = Count(cells, c) /\ c.v <= d.v

\* df[col] = df[col].fillna(cell)
fillna(df, col, cell) ==
    [df EXCEPT !.rows =
        [i \in 1..Len(df.rows) |->
            [df.rows[i] EXCEPT ![ColIdx(df, col)] = IF isna(@) THEN cell ELSE @]]]

\* df[col] = cells, with the column's dtype set to dt.
SetColumn(df, col, cells, dt) ==
    [df EXCEPT !.rows = [i \in 1..Len(df.rows) |->
                            [df.rows[i] EXCEPT ![ColIdx(df, col)] = cells[i]]],
               !.dtypes = [@ EXCEPT ![ColIdx(df, col)] = dt]]

shape(df) == <<Len(df.rows), Len(df.columns)>>

\* An operation's outcome: the exception raised, or the table produced.
Raise(exc) == [raised |-> TRUE, exc |-> exc, df |-> << >>, info |-> 0]
Done(df, info) == [raised |-> FALSE, exc |-> InternalServerError, df |-> df, info |-> info]

\* ---------------------------------------------------------- clean-missing

fill_mean_col(df, col) ==
    IF HasColumn(df, col) /\ dtype(df, col) \in {"float64", "int64"}
       /\ Values(df, col) # << >>
    THEN fillna(df, col, Num(mean(Values(df, col))))
    ELSE df

fill_median_col(df, col) ==
    IF HasColumn(df, col) /\ dtype(df, col) \in {"float64", "int64"}
       /\ Values(df, col) # << >>
    THEN fillna(df, col, Num(median(Values(df, col))))
    ELSE df

fill_mode_col(df, col) ==
    IF HasColumn(df, col)
    THEN fillna(df, col, IF Present(df, col) # << >> THEN mode(Present(df, col))
                         ELSE Num(0))
    ELSE df

\* for col in cols_to_clean: df[col] = fill(df, col)
RECURSIVE fill_each(_, _, _)
fill_each(df, cols, operation) ==
    IF cols = << >> THEN df
    ELSE fill_each(CASE operation = "fill_mean" -> fill_mean_col(df, cols[1])
                     [] operation = "fill_median" -> fill_median_col(df, cols[1])
                     [] OTHER -> fill_mode_col(df, cols[1]),
                   Tail(cols), operation)

\* KNNImputer(n_neighbors=5).fit_transform on the columns numeric_cols: a
\* missing cell becomes the mean of that column over the donor rows (rows
\* holding the column) that share a present column with the receiving row,
\* or over all donor rows when none does.  With at most n_neighbors donor
\* rows every donor is a neighbour; the tables of this model stay within it.
knn_value(df, numeric_cols, col, r) ==
    LET ci == ColIdx(df, col)
        donors == {d \in 1..Len(df.rows) : ~isna(df.rows[d][ci])}
        near == {d \in donors :
                    \E c \in Range(numeric_cols) :
                        /\ ~isna(df.rows[d][ColIdx(df, c)])
                        /\ ~isna(df.rows[r][ColIdx(df, c)])}
        used == IF near = {} THEN donors ELSE near
        idx == SelectSeq([i \in 1..Len(df.rows) |-> i], LAMBDA i : i \in used)
    IN  Num(mean([k \in 1..Len(idx) |-> df.rows[idx[k]][ci].v]))

RECURSIVE knn_columns(_, _, _, _)
knn_columns(src, df, numeric_cols, todo) ==
    IF todo = << >> THEN df
    ELSE knn_columns(src,
            SetColumn(df, todo[1],
                [r \in 1..Len(src.rows) |->
                    IF isna(src.rows[r][ColIdx(src, todo[1])])
                    THEN knn_value(src, numeric_cols, todo[1], r)
                    ELSE src.rows[r][ColIdx(src, todo[1])]],
                "float64"),
            numeric_cols, Tail(todo))

knn_impute(df, cols_to_clean) ==
    IF \E c \in Range(cols_to_clean) : ~HasColumn(df, c)
    THEN Raise(InternalServerError)                       \* KeyError in df[cols]
    ELSE LET numeric_cols == SelectSeq(cols_to_clean,
                                LAMBDA c : dtype(df, c) \in np_number)
         IN  IF numeric_cols = << >>
             THEN Raise(HTTPException(400, "No numeric columns to impute"))
             ELSE IF \/ df.rows = << >>
                     \/ \E c \in Range(numeric_cols) : Values(df, c) = << >>
                  THEN Raise(InternalServerError)         \* ValueError in sklearn
                  ELSE Done(knn_columns(df, df, numeric_cols, numeric_cols), 0)

\* Mutant: an unknown operation falls through and the copy is stored.
invalid_operation_ignored(df) == Done(df, 0)

\* The final else of the operation chain.
invalid_operation(df) == Raise(HTTPException(400, "Invalid operation"))

CleanOutcome(df, operation, cols_to_clean) ==
    CASE operation = "drop_missing" ->
            IF \E c \in Range(cols_to_clean) : ~HasColumn(df, c)
            THEN Raise(InternalServerError)               \* KeyError in dropna
            ELSE Done(dropna(df, cols_to_clean),
                      Len(df.rows) - Len(dropna(df, cols_to_clean).rows))
      [] operation \in {"fill_mean", "fill_median", "fill_mode"} ->
            Done(fill_each(df, cols_to_clean, operation), 0)
      [] operation = "knn_impute" -> knn_impute(df, cols_to_clean)
      [] OTHER -> invalid_operation(df)

CleanMessage(operation, rows_removed) ==
    CASE operation = "drop_missing" ->
            [text |-> "Removed {rows_removed} rows with missing values",
             rows_removed |-> Some(rows_removed)]
      [] operation = "fill_mean" ->
            [text |-> "Filled missing values with column means", rows_removed |-> None]
      [] operation = "fill_median" ->
            [text |-> "Filled missing values with column medians", rows_removed |-> None]
      [] operation = "fill_mode" ->
            [text |-> "Filled missing values with column modes", rows_removed |-> None]
      [] OTHER ->
            [text |-> "Filled missing values using KNN imputation", rows_removed |-> None]

\* Mutant: with no column given, every column is targeted.
cols_to_clean_every_column(df, columns) ==
    IF columns # None /\ columns[1] # << >> THEN columns[1] ELSE df.columns

\* request.columns when it is given and not empty, else the numeric columns.
cols_to_clean(df, columns) ==
    IF columns # None /\ columns[1] # << >> THEN columns[1]
    ELSE select_dtypes(df, np_number)

\* Mutant: the result is stored back under the source identifier.
cleaned_id_in_place(data_id, operation) == data_id

cleaned_id(data_id, operation) == data_id \o <<"_cleaned_", operation>>

\* Mutant: the store is rebuilt around the new entry.
StoreAlone(key, df) == data_store' = [k \in {key} |-> df]

\* data_store[key] = df, within the model's bound on the number of entries.
Store(key, df) ==
    /\ key \in DOMAIN data_store \/ Cardinality(DOMAIN data_store) < MaxEntries
    /\ data_store' = [k \in DOMAIN data_store \cup {key} |->
                        IF k = key THEN df ELSE data_store[k]]

clean_missing_values(req) ==
    /\ request' = req
    /\ IF req.data_id \notin DOMAIN data_store
       THEN /\ response' = NotFound
            /\ UNCHANGED data_store
       ELSE LET source == data_store[req.data_id]
                out == CleanOutcome(source, req.operation,
                                    cols_to_clean(source, req.columns))
                new_id == cleaned_id(req.data_id, req.operation)
            IN  IF out.raised
                THEN /\ response' = out.exc
                     /\ UNCHANGED data_store
                ELSE /\ Store(new_id, out.df)
                     /\ response' = OK(
                          [message |-> CleanMessage(req.operation, out.info),
                           new_data_id |-> new_id,
                           original_shape |-> shape(source),
                           new_shape |-> shape(out.df),
                           missing_values_before |->
                               Len(source.rows) - Len(dropna_all(source).rows),
                           missing_values_after |->
                               Len(out.df.rows) - Len(dropna_all(out.df).rows),
                           preview |-> head(out.df, CleanPreviewRows)])

upload_data(file) ==
    /\ request' = [endpoint |-> "upload", file |-> file]
    /\ response' = UploadResponse(file)
    /\ IF UploadResponse(file).status_code = 200
       THEN Store(upload_data_id(file.filename), file.contents.table)
       ELSE UNCHANGED data_store

\* -------------------------------------------------------- remove-outliers

\* 4 * Series.quantile(k / 4) of a non-empty sequence of values (linear
\* interpolation between the two order statistics around (n - 1) * k / 4).
quantile4(vals, k) ==
    LET s == Sorted(vals)
        pos == k * (Len(s) - 1)
        j == pos \div 4
        r == pos % 4
    IN  IF r = 0 THEN 4 * s[j + 1] ELSE (4 - r) * s[j + 1] + r * s[j + 2]

\* lower_bound <= v <= upper_bound, the bounds Q1 - 1.5 IQR and Q3 + 1.5 IQR
\* of vals, all multiplied by 8.
within_iqr(vals, v) ==
    LET Q1 == quantile4(vals, 1)
        Q3 == quantile4(vals, 3)
        IQR == Q3 - Q1
    IN  /\ 8 * v >= 2 * Q1 - 3 * IQR
        /\ 8 * v <= 2 * Q3 + 3 * IQR

\* df = df[(df[col] >= lower_bound) & (df[col] <= upper_bound)]: a missing
\* cell compares false, and so do all cells when the column has no value.
iqr_filter(df, col) ==
    [df EXCEPT !.rows = SelectSeq(df.rows, LAMBDA row :
        /\ ~isna(row[ColIdx(df, col)])
        /\ within_iqr(Values(df, col), row[ColIdx(df, col)].v))]

\* |v - mean| / std < threshold for the sample vals (std with ddof = 1),
\* multiplied out: n = Len(vals), S their sum.  A sample of fewer than two
\* values or of zero variance has no z-score below any threshold.
below_zscore(vals, v, threshold) ==
    LET n == Len(vals)
        S == SumSeq(vals)
        dev == SumSeq([i \in 1..n |-> (n * vals[i] - S) * (n * vals[i] - S)])
    IN  /\ n >= 2
        /\ threshold > 0
        /\ (n * v - S) * (n * v - S) * (n - 1) < threshold * threshold * dev

\* df = df[z_scores < threshold]
zscore_filter(df, col, threshold) ==
    [df EXCEPT !.rows = SelectSeq(df.rows, LAMBDA row :
        /\ ~isna(row[ColIdx(df, col)])
        /\ below_zscore(Values(df, col), row[ColIdx(df, col)].v, threshold))]

\* One pass of the loop `for col in request.columns` on the table so far.
outlier_step(df, method, col, threshold) ==
    IF method = "iqr" THEN iqr_filter(df, col) ELSE zscore_filter(df, col, threshold)

\* The loop: a column the table lacks is skipped, a column that is not
\* numeric raises (TypeError), and outliers_removed adds up each pass.
RECURSIVE outlier_loop(_, _, _, _, _)
outlier_loop(df, method, cols, threshold, outliers_removed) ==
    IF cols = << >> THEN Done(df, outliers_removed)
    ELSE IF ~HasColumn(df, cols[1])
         THEN outlier_loop(df, method, Tail(cols), threshold, outliers_removed)
         ELSE IF dtype(df, cols[1]) \notin np_number
              THEN Raise(InternalServerError)
              ELSE outlier_loop(outlier_step(df, method, cols[1], threshold),
                                method, Tail(cols), threshold,
                                outliers_removed + Len(df.rows)
                                  - Len(outlier_step(df, method, cols[1], threshold).rows))

\* threshold = request.threshold or 3
effective_threshold(threshold) ==
    IF threshold # None /\ threshold[1] # 0 THEN threshold[1] ELSE DefaultThreshold

OutlierOutcome(df, method, cols, threshold) ==
    IF method \in {"iqr", "zscore"}
    THEN outlier_loop(df, method, cols, effective_threshold(threshold), 0)
    ELSE Raise(HTTPException(400, "Invalid method"))

no_outliers_id(data_id) == data_id \o <<"_no_outliers">>

remove_outliers(req) ==
    /\ request' = req
    /\ IF req.data_id \notin DOMAIN data_store
       THEN /\ response' = NotFound
            /\ UNCHANGED data_store
       ELSE LET source == data_store[req.data_id]
                out == OutlierOutcome(source, req.method, req.columns, req.threshold)
                new_id == no_outliers_id(req.data_id)
            IN  IF out.raised
                THEN /\ response' = out.exc
                     /\ UNCHANGED data_store
                ELSE /\ Store(new_id, out.df)
                     /\ response' = OK(
                          [message |-> [text |-> "Removed {outliers_removed} outliers using {method} method",
                                        outliers_removed |-> out.info,
                                        method |-> req.method],
                           new_data_id |-> new_id,
                           original_shape |-> shape(source),
                           new_shape |-> shape(out.df),
                           outliers_removed |-> out.info,
                           preview |-> head(out.df, CleanPreviewRows)])

\* ------------------------------------------------------------- scale-data

\* StandardScaler on one column: (v - mean) / std over the present values
\* (std with ddof = 0, replaced by 1 when it is 0), in fixed point.
standard_value(vals, v) ==
    LET n == Len(vals)
        S == SumSeq(vals)
        dev == SumSeq([i \in 1..n |-> (n * vals[i] - S) * (n * vals[i] - S)])
        d == n * v - S
    IN  IF dev = 0 THEN (v * n - S) \div n
        ELSE (IF d < 0 THEN -1 ELSE 1) * Isqrt((d * d * n * Unit * Unit) \div dev)

\* MinMaxScaler on one column: (v - min) / (max - min), the range replaced by
\* 1 when it is 0, in fixed point.
minmax_value(vals, v) ==
    LET s == Sorted(vals)
        lo == s[1]
        hi == s[Len(s)]
    IN  IF hi = lo THEN v - lo ELSE ((v - lo) * Unit) \div (hi - lo)

scaled_column(df, col, method) ==
    [r \in 1..Len(df.rows) |->
        IF isna(Column(df, col)[r]) THEN NaN
        ELSE Num(IF method = "standard"
                 THEN standard_value(Values(df, col), Column(df, col)[r].v)
                 ELSE minmax_value(Values(df, col), Column(df, col)[r].v))]

\* df[request.columns] = scaler.fit_transform(df[request.columns])
RECURSIVE scale_columns(_, _, _, _)
scale_columns(src, df, method, todo) ==
    IF todo = << >> THEN df
    ELSE scale_columns(src,
            SetColumn(df, todo[1], scaled_column(src, todo[1], method), "float64"),
            method, Tail(todo))

\* fit_transform raises ValueError on no column, no row or a text cell;
\* df[request.columns] raises KeyError on a column the table lacks.
ScaleOutcome(df, method, cols) ==
    IF method \notin {"standard", "minmax"}
    THEN Raise(HTTPException(400, "Invalid scaling method"))
    ELSE IF \/ \E c \in Range(cols) : ~HasColumn(df, c)
            \/ cols = << >>
            \/ df.rows = << >>
            \/ \E c \in Range(cols) : \E cell \in Range(Column(df, c)) :
                   cell.kind = "str"
         THEN Raise(InternalServerError)
         ELSE Done(scale_columns(df, df, method, cols), 0)

scaled_id(data_id, method) == data_id \o <<"_scaled_", method>>

scale_data(req) ==
    /\ request' = req
    /\ IF req.data_id \notin DOMAIN data_store
       THEN /\ response' = NotFound
            /\ UNCHANGED data_store
       ELSE LET source == data_store[req.data_id]
                out == ScaleOutcome(source, req.method, req.columns)
                new_id == scaled_id(req.data_id, req.method)
            IN  IF out.raised
                THEN /\ response' = out.exc
                     /\ UNCHANGED data_store
                ELSE /\ Store(new_id, out.df)
                     /\ response' = OK(
                          [message |-> IF req.method = "standard"
                                       THEN "Applied Standardization (mean=0, std=1)"
                                       ELSE "Applied Min-Max Scaling (range 0-1)",
                           new_data_id |-> new_id,
                           scaled_columns |-> req.columns,
                           preview |-> head(out.df, CleanPreviewRows)])

\* --------------------------------------------------------------- analyses

\* The statistic itself is computed by scipy / statsmodels; `computed` says
\* whether that call returned or raised.  A text column always makes it
\* raise.  No analysis handler catches an exception.
AnalysisResponse(data_id, cols, numeric, computed, body) ==
    IF data_id \notin DOMAIN data_store
    THEN NotFound
    ELSE IF \E c \in Range(cols) : ~HasColumn(data_store[data_id], c)
         THEN InternalServerError                         \* KeyError in df[...]
         ELSE IF ~computed
                 \/ \E c \in Range(numeric) : dtype(data_store[data_id], c) \notin np_number
              THEN InternalServerError
              ELSE OK(body)

hypothesis_test(req, computed) ==
    /\ request' = req
    /\ response' = AnalysisResponse(req.data_id, <<req.column>>, <<req.column>>, computed,
            [sample_size |-> Len(Values(data_store[req.data_id], req.column))])
    /\ UNCHANGED data_store

regression_analysis(req, computed) ==
    /\ request' = req
    /\ response' = AnalysisResponse(req.data_id, <<req.y_column, req.x_column>>,
            <<req.y_column, req.x_column>>, computed,
            [scatter_points |->
                Len(dropna(data_store[req.data_id], <<req.y_column, req.x_column>>).rows)])
    /\ UNCHANGED data_store

anova_analysis(req, computed) ==
    /\ request' = req
    /\ response' = AnalysisResponse(req.data_id, <<req.value_column, req.group_column>>,
            <<req.value_column>>, computed,
            [num_groups |->
                Cardinality(Range(Present(
                    dropna(data_store[req.data_id], <<req.value_column, req.group_column>>),
                    req.group_column)))])
    /\ UNCHANGED data_store

normality_test(req, computed) ==
    /\ request' = req
    /\ response' = AnalysisResponse(req.data_id, <<req.column>>, <<req.column>>, computed,
            [qq_points |-> Len(Values(data_store[req.data_id], req.column))])
    /\ UNCHANGED data_store

get_statistics(data_id) ==
    /\ request' = [endpoint |-> "statistics", data_id |-> data_id]
    /\ response' =
          IF data_id \notin DOMAIN data_store
          THEN NotFound
          ELSE LET df == data_store[data_id]
                   numeric_cols == select_dtypes(df, np_number)
               IN  IF numeric_cols = << >>
                   THEN HTTPException(400, "No numeric columns found")
                   ELSE IF \E c \in Range(Take(numeric_cols, 5)) : Values(df, c) = << >>
                        THEN InternalServerError          \* np.min of no value
                        ELSE OK([columns |-> numeric_cols,
                                 box_plot_data |-> Take(numeric_cols, 5),
                                 histogram_column |-> numeric_cols[1]])
    /\ UNCHANGED data_store

correlation_analysis(data_id) ==
    /\ request' = [endpoint |-> "correlation", data_id |-> data_id]
    /\ response' =
          IF data_id \notin DOMAIN data_store
          THEN NotFound
          ELSE LET numeric_cols == select_dtypes(data_store[data_id], np_number)
               IN  IF Len(numeric_cols) < 2
                   THEN HTTPException(400, "Need at least 2 numeric columns")
                   ELSE OK([columns |-> numeric_cols])
    /\ UNCHANGED data_store

\* ----------------------------------------------------------------- inputs

\* "report_2023_a.csv", "report_2023_b.csv" (equal in their first 12 bytes),
\* "data.xlsx", "notes.txt".
report_a_csv == <<114, 101, 112, 111, 114, 116, 95, 50, 48, 50, 51, 95, 97, 46, 99, 115, 118>>
report_b_csv == <<114, 101, 112, 111, 114, 116, 95, 50, 48, 50, 51, 95, 98, 46, 99, 115, 118>>
data_xlsx == <<100, 97, 116, 97, 46, 120, 108, 115, 120>>
notes_txt == <<110, 111, 116, 101, 115, 46, 116, 120, 116>>

Sales ==
    [columns |-> <<"a", "b", "s">>,
     dtypes |-> <<"float64", "int64", "object">>,
     rows |-> << <<Num(1 * Unit), Num(2 * Unit), Str(1)>>,
                 <<NaN, Num(3 * Unit), NaN>>,
                 <<Num(4 * Unit), Num(5 * Unit), Str(2)>> >>]

Costs ==
    [columns |-> <<"a", "b", "s">>,
     dtypes |-> <<"float64", "int64", "object">>,
     rows |-> << <<Num(7 * Unit), Num(1 * Unit), Str(3)>>,
                 <<Num(7 * Unit), Num(9 * Unit), NaN>> >>]

Labels ==
    [columns |-> <<"s">>,
     dtypes |-> <<"object">>,
     rows |-> << <<Str(1)>>, <<NaN>> >>]

Headers ==
    [columns |-> <<"a", "s">>,
     dtypes |-> <<"float64", "object">>,
     rows |-> << >>]

CsvFile(filename, df) ==
    [filename |-> filename, contents |-> [format |-> "csv", table |-> df]]

ExcelFile(filename, df) ==
    [filename |-> filename, contents |-> [format |-> "excel", table |-> df]]

Files ==
    { CsvFile(report_a_csv, Sales),
      CsvFile(report_b_csv, Costs),
      CsvFile(notes_txt, Sales) }

\* An identifier no upload or derivation of the model produces.
UnknownId == <<"n", "o", "n", "e">>

DataIds == DOMAIN data_store \cup {UnknownId}

CleanRequests(ids, ops, columns) ==
    [endpoint : {"clean-missing"}, data_id : ids, operation : ops, columns : columns]

OutlierRequests(ids, methods, columns, thresholds) ==
    [endpoint : {"remove-outliers"}, data_id : ids, method : methods,
     columns : columns, threshold : thresholds]

ScalingRequests(ids, methods, columns) ==
    [endpoint : {"scale-data"}, data_id : ids, method : methods, columns : columns]

TTestRequest(id, c) ==
    [endpoint |-> "hypothesis-test", data_id |-> id, column |-> c]

RegressionRequest(id, y, x) ==
    [endpoint |-> "regression", data_id |-> id, y_column |-> y, x_column |-> x]

ANOVARequest(id, v, g) ==
    [endpoint |-> "anova", data_id |-> id, value_column |-> v, group_column |-> g]

NormalityTestRequest(id, c) ==
    [endpoint |-> "normality-test", data_id |-> id, column |-> c]

NoRequest == [endpoint |-> "none"]
NoResponse == [status_code |-> 0, detail |-> "", body |-> None]

\* ---------------------------------------------------------- specification
\* Spec: any sequence of requests, from the empty store.  The failing
\* variants of the cleaning requests run in SpecCall; the other analysis
\* requests read the store as the t-test does and run in SpecAnalysis.

Init ==
    /\ data_store = << >>
    /\ request = NoRequest
    /\ response = NoResponse

Upload == \E file \in Files : upload_data(file)

Clean ==
    \E req \in CleanRequests(DataIds, {"drop_missing"}, {None}) :
        clean_missing_values(req)

Outliers ==
    \E req \in OutlierRequests(DataIds, {"zscore"}, {<<"a">>}, {Some(1)}) :
        remove_outliers(req)

Scale ==
    \E req \in ScalingRequests(DataIds, {"minmax"}, {<<"a">>}) :
        scale_data(req)

TTest ==
    \E id \in DataIds, computed \in BOOLEAN :
        hypothesis_test(TTestRequest(id, "a"), computed)

Next ==
    \/ Upload
    \/ Clean
    \/ Outliers
    \/ Scale
    \/ TTest

Spec == Init /\ [][Next]_vars

\* ------------------------------------------------------------------------
\* SpecCall: one cleaning request, of any operation and column list, on a
\* store that uploads and earlier derivations have filled.

root == upload_data_id(report_a_csv)

CallTables == {Sales, Costs, Labels, Headers}

StoreOf(df) == [k \in {root} |-> df]

With(store, key, df) ==
    [k \in DOMAIN store \cup {key} |-> IF k = key THEN df ELSE store[k]]

\* The root table, alone or beside an entry derived from an earlier root.
CallStores ==
    {StoreOf(df) : df \in CallTables}
    \cup {With(StoreOf(df), cleaned_id(root, "knn_impute"),
               knn_impute(old, select_dtypes(old, np_number)).df) :
            df \in CallTables, old \in {Sales, Costs}}
    \cup {With(StoreOf(df), scaled_id(root, "minmax"),
               ScaleOutcome(old, "minmax", <<"a">>).df) :
            df \in CallTables, old \in {Sales, Costs}}

Operations ==
    {"drop_missing", "fill_mean", "fill_median", "fill_mode", "knn_impute", "bogus"}

CleanColumns ==
    {None, Some(<< >>), Some(<<"a">>), Some(<<"s">>), Some(<<"zz">>), Some(<<"a", "b">>)}

OutlierColumns == {<<"a">>, <<"b", "zz", "a">>, <<"s">>, << >>}

ScaleColumns == {<<"a">>, <<"a", "b">>, <<"s">>, <<"zz">>, << >>}

Thresholds == {None, Some(0), Some(1), Some(-1)}

InitCall ==
    /\ data_store \in CallStores
    /\ request = NoRequest
    /\ response = NoResponse

CallClean ==
    /\ request = NoRequest
    /\ \E req \in CleanRequests(DataIds, Operations, CleanColumns) :
          clean_missing_values(req)

CallOutliers ==
    /\ request = NoRequest
    /\ \E req \in OutlierRequests(DataIds, {"iqr", "zscore", "bogus"},
                                  OutlierColumns, Thresholds) :
          remove_outliers(req)

CallScale ==
    /\ request = NoRequest
    /\ \E req \in ScalingRequests(DataIds, {"standard", "minmax", "bogus"},
                                  ScaleColumns) :
          scale_data(req)

NextCall == CallClean \/ CallOutliers \/ CallScale

SpecCall == InitCall /\ [][NextCall]_vars

\* ------------------------------------------------------------------------
\* SpecAnalysis: one analysis request on an uploaded table.

AnalysisColumns == {"a", "b", "s", "zz"}

InitAnalysis ==
    /\ data_store \in {StoreOf(df) : df \in CallTables}
    /\ request = NoRequest
    /\ response = NoResponse

CallTTest ==
    /\ request = NoRequest
    /\ \E id \in DataIds, c \in AnalysisColumns, computed \in BOOLEAN :
          hypothesis_test(TTestRequest(id, c), computed)

CallRegression ==
    /\ request = NoRequest
    /\ \E id \in DataIds, y \in AnalysisColumns, x \in AnalysisColumns,
          computed \in BOOLEAN :
          regression_analysis(RegressionRequest(id, y, x), computed)

CallAnova ==
    /\ request = NoRequest
    /\ \E id \in DataIds, v \in AnalysisColumns, g \in AnalysisColumns,
          computed \in BOOLEAN :
          anova_analysis(ANOVARequest(id, v, g), computed)

CallNormality ==
    /\ request = NoRequest
    /\ \E id \in DataIds, c \in AnalysisColumns, computed \in BOOLEAN :
          normality_test(NormalityTestRequest(id, c), computed)

CallStatistics == request = NoRequest /\ \E id \in DataIds : get_statistics(id)

CallCorrelation == request = NoRequest /\ \E id \in DataIds : correlation_analysis(id)

NextAnalysis ==
    \/ CallTTest
    \/ CallRegression
    \/ CallAnova
    \/ CallNormality
    \/ CallStatistics
    \/ CallCorrelation

SpecAnalysis == InitAnalysis /\ [][NextAnalysis]_vars

\* ------------------------------------------------------------------------
\* SpecClean: one clean-missing request on a generated table of two float
\* columns and a text column, every cell present or missing.

SeqsUpTo(S, n) == UNION {[1..k -> S] : k \in 0..n}

CleanRows ==
    {<<x, y, z>> : x \in {Num(Unit), NaN}, y \in {Num(2 * Unit), NaN},
                   z \in {Str(1), NaN}}

CleanTables ==
    {[columns |-> <<"a", "b", "s">>,
      dtypes |-> <<"float64", "float64", "object">>,
      rows |-> rows] : rows \in SeqsUpTo(CleanRows, MaxRows)}
    \cup {Labels}

InitClean ==
    /\ data_store \in {StoreOf(df) : df \in CleanTables}
    /\ request = NoRequest
    /\ response = NoResponse

CleanGenerated ==
    /\ request = NoRequest
    /\ \E req \in CleanRequests(DataIds, Operations, {None, Some(<< >>), Some(<<"s">>)}) :
          clean_missing_values(req)

NextClean == CleanGenerated

SpecClean == InitClean /\ [][NextClean]_vars

\* ------------------------------------------------------------------------
\* SpecOutliers: one remove-outliers request on a generated table of two
\* float columns.

OutlierRows ==
    {<<x, y>> : x \in {Num(0), Num(10 * Unit), NaN}, y \in {Num(0), Num(10 * Unit)}}

OutlierTables ==
    {[columns |-> <<"a", "b">>,
      dtypes |-> <<"float64", "float64">>,
      rows |-> rows] : rows \in SeqsUpTo(OutlierRows, MaxOutlierRows)}

InitOutliers ==
    /\ data_store \in {StoreOf(df) : df \in OutlierTables}
    /\ request = NoRequest
    /\ response = NoResponse

OutliersGenerated ==
    /\ request = NoRequest
    /\ \E req \in OutlierRequests(DataIds, {"iqr", "zscore"},
                                  {<<"a">>, <<"a", "b">>, <<"b", "zz", "a">>},
                                  {None, Some(1)}) :
          remove_outliers(req)

NextOutliers == OutliersGenerated

SpecOutliers == InitOutliers /\ [][NextOutliers]_vars

\* ------------------------------------------------------------------------
\* SpecUpload: one upload, of a table with any dtype in each column.

ColumnNames == <<"c1", "c2", "c3", "c4", "c5", "c6">>

Dtypes == {"int64", "float64", "object", "bool", "datetime64[ns]"}

\* A cell the parser produces in a column of dtype dt.
DtypeCell(dt) ==
    CASE dt = "int64" -> Num(Unit)
      [] dt = "float64" -> NaN
      [] dt = "object" -> Str(1)
      [] dt = "bool" -> Bool(1)
      [] OTHER -> Date(1)

ParsedTables ==
    {[columns |-> Take(ColumnNames, Len(dts)),
      dtypes |-> dts,
      rows |-> << [j \in 1..Len(dts) |-> DtypeCell(dts[j])] >>] :
        dts \in UNION {[1..k -> Dtypes] : k \in 1..MaxCols}}

\* read_csv leaves dates as text; read_excel parses them.
CsvTables == {df \in ParsedTables : "datetime64[ns]" \notin Range(df.dtypes)}

UploadFiles ==
    {CsvFile(report_a_csv, df) : df \in CsvTables}
    \cup {ExcelFile(data_xlsx, df) : df \in ParsedTables}
    \cup {CsvFile(data_xlsx, Sales), ExcelFile(report_a_csv, Sales),
          CsvFile(notes_txt, Sales)}

UploadParsed ==
    /\ request = NoRequest
    /\ \E file \in UploadFiles : upload_data(file)

NextUpload == UploadParsed

SpecUpload == Init /\ [][NextUpload]_vars

\* ================================================================= claims

Families == {"clean-missing", "remove-outliers", "scale-data"}

NewId(resp) == resp.body[1].new_data_id

\* C1: a clean-missing, remove-outliers or scale-data call that names a
\* stored identifier d leaves the table stored under d as it was, whatever
\* the operation and the columns, whether the call succeeds or fails.
C1_SourceUnchanged ==
    [][\A d \in DOMAIN data_store :
          (request'.endpoint \in Families /\ request'.data_id = d)
              => (d \in DOMAIN data_store' /\ data_store'[d] = data_store[d])]_vars

\* A call succeeded and stored a table that differs from its source, which
\* is still there.
C1_Witness ==
    /\ request.endpoint \in Families
    /\ response.status_code = 200
    /\ request.data_id \in DOMAIN data_store
    /\ NewId(response) \in DOMAIN data_store
    /\ data_store[NewId(response)] # data_store[request.data_id]

\* C2: an identifier once bound to a table is never bound to another one.
C2_NeverRebound ==
    [][\A k \in DOMAIN data_store :
          k \in DOMAIN data_store' /\ data_store'[k] = data_store[k]]_vars

\* C3: a cleaning call on an identifier the store lacks fails with 404
\* "Data not found", whatever its operation tag and columns, and leaves the
\* store unchanged.
C3_UnknownIdNotFound ==
    [][(request'.endpoint \in Families /\ request'.data_id \notin DOMAIN data_store)
          => /\ response'.status_code = 404
             /\ response'.detail = "Data not found"
             /\ response'.body = None
             /\ data_store' = data_store]_vars

\* A call with a tag outside the enumeration on an unknown identifier was
\* answered 404.
C3_Witness ==
    /\ request.endpoint = "clean-missing"
    /\ request.operation = "bogus"
    /\ request.columns = Some(<<"zz">>)
    /\ request.data_id \notin DOMAIN data_store
    /\ response.status_code = 404

Supported(filename) ==
    endswith(filename, ext_csv) \/ endswith(filename, ext_xlsx) \/ endswith(filename, ext_xls)

\* C4: an upload whose filename ends in none of .csv, .xlsx, .xls fails with
\* status 400 (unsupported format) and stores nothing.
C4_UnsupportedFormat ==
    (request.endpoint = "upload" /\ ~Supported(request.file.filename))
        => /\ response.status_code = 400
           /\ response.detail = "Unsupported file format"
           /\ upload_data_id(request.file.filename) \notin DOMAIN data_store

InvalidName(req) ==
    \/ req.endpoint = "clean-missing" /\ req.operation \notin
          {"drop_missing", "fill_mean", "fill_median", "fill_mode", "knn_impute"}
    \/ req.endpoint = "remove-outliers" /\ req.method \notin {"iqr", "zscore"}
    \/ req.endpoint = "scale-data" /\ req.method \notin {"standard", "minmax"}

\* The columns a clean-missing request targets in df.
Targeted(req, df) ==
    IF req.columns # None /\ req.columns[1] # << >>
    THEN Range(req.columns[1])
    ELSE {df.columns[j] : j \in {i \in 1..Len(df.columns) :
                                    df.dtypes[i] \in {"int64", "float64"}}}

KnnWithoutNumeric(req, df) ==
    /\ req.endpoint = "clean-missing"
    /\ req.operation = "knn_impute"
    /\ \A c \in Targeted(req, df) :
          \A j \in 1..Len(df.columns) :
              df.columns[j] = c => df.dtypes[j] \notin {"int64", "float64"}

ScaleAbsentColumn(req, df) ==
    /\ req.endpoint = "scale-data"
    /\ req.method \in {"standard", "minmax"}
    /\ \E c \in Range(req.columns) : c \notin Range(df.columns)

\* C5: a cleaning call on a stored identifier that ends in an error leaves
\* the store as it was; a name outside the enumeration is answered 400
\* (invalid operation / method), and knn_impute without a numeric targeted
\* column and scaling an absent column are errors.
C5_FailingCallKeepsStore ==
    [][(request'.endpoint \in Families /\ request'.data_id \in DOMAIN data_store)
          => /\ response'.status_code # 200 => data_store' = data_store
             /\ InvalidName(request')
                   => /\ response'.status_code = 400
                      /\ response'.detail \in {"Invalid operation", "Invalid method",
                                               "Invalid scaling method"}
             /\ KnnWithoutNumeric(request', data_store[request'.data_id])
                   => response'.status_code # 200
             /\ ScaleAbsentColumn(request', data_store[request'.data_id])
                   => response'.status_code # 200]_vars

\* A knn_impute call failed for want of a numeric column while the entry it
\* would have written exists, derived from an earlier table.
C5_Witness ==
    /\ request.endpoint = "clean-missing"
    /\ request.operation = "knn_impute"
    /\ request.data_id \in DOMAIN data_store
    /\ response.status_code = 400
    /\ response.detail = "No numeric columns to impute"
    /\ request.data_id \o <<"_cleaned_", "knn_impute">> \in DOMAIN data_store

\* The table a successful cleaning request req derives from df.
Transformed(req, df) ==
    CASE req.endpoint = "clean-missing" ->
            CleanOutcome(df, req.operation, cols_to_clean(df, req.columns)).df
      [] req.endpoint = "remove-outliers" ->
            OutlierOutcome(df, req.method, req.columns, req.threshold).df
      [] OTHER -> ScaleOutcome(df, req.method, req.columns).df

\* C6: after a successful cleaning call the returned new_data_id is in the
\* store, bound to the transformed table, and no step ever removes an entry:
\* an identifier a step returned resolves in every later state.
C6_DerivedStaysResolvable ==
    [][/\ DOMAIN data_store \subseteq DOMAIN data_store'
       /\ (request'.endpoint \in Families /\ response'.status_code = 200)
             => /\ NewId(response') \in DOMAIN data_store'
                /\ Take(data_store'[NewId(response')].rows, CleanPreviewRows)
                      = response'.body[1].preview
                /\ request'.data_id \in DOMAIN data_store
                      => data_store'[NewId(response')]
                            = Transformed(request', data_store[request'.data_id])]_vars

\* A t-test ran on the end of the chain upload -> clean -> remove outliers.
C6_Witness ==
    /\ request.endpoint = "hypothesis-test"
    /\ response.status_code = 200
    /\ \E up \in DOMAIN data_store :
          /\ Len(up) = IdLength
          /\ up \o <<"_cleaned_", "drop_missing">> \in DOMAIN data_store
          /\ request.data_id = up \o <<"_cleaned_", "drop_missing", "_no_outliers">>
          /\ request.data_id \in DOMAIN data_store

\* The columns an analysis request names.
NamedColumns(req) ==
    CASE req.endpoint \in {"hypothesis-test", "normality-test"} -> {req.column}
      [] req.endpoint = "regression" -> {req.y_column, req.x_column}
      [] req.endpoint = "anova" -> {req.value_column, req.group_column}
      [] OTHER -> {}

\* C7: a t-test, regression, ANOVA or normality request that names a stored
\* dataset and a column its table lacks fails with an error of its own kind:
\* neither 404 nor the answer of an unclassified computation failure.
C7_ColumnNotFound ==
    (/\ request.endpoint \in {"hypothesis-test", "regression", "anova", "normality-test"}
     /\ request.data_id \in DOMAIN data_store
     /\ \E c \in NamedColumns(request) : c \notin Range(data_store[request.data_id].columns))
        => /\ response.status_code \notin {200, 404}
           /\ response # HTTPException(500, "Internal Server Error")

\* C8: the numeric and categorical column lists of an upload response are
\* disjoint and together hold every column of the table.
C8_ColumnsPartitioned ==
    (request.endpoint = "upload" /\ response.status_code = 200)
        => /\ Range(response.body[1].numeric_columns)
                \cap Range(response.body[1].categorical_columns) = {}
           /\ Range(response.body[1].numeric_columns)
                \cup Range(response.body[1].categorical_columns)
                = Range(request.file.contents.table.columns)

\* A row with no missing cell in a column of numeric dtype.
NumericComplete(df, row) ==
    \A j \in 1..Len(df.columns) :
        df.dtypes[j] \in {"int64", "float64"} => row[j].kind # "nan"

DropMissingCall ==
    /\ request.endpoint = "clean-missing"
    /\ request.operation = "drop_missing"
    /\ request.columns \in {None, Some(<< >>)}
    /\ request.data_id \in DOMAIN data_store

\* C9: drop_missing with no columns stores exactly the source rows that have
\* no missing value in a numeric column, in source order, and reports the
\* number of rows removed.
C9_DropMissingExact ==
    DropMissingCall =>
        LET source == data_store[request.data_id]
            kept == SelectSeq(source.rows, LAMBDA row : NumericComplete(source, row))
        IN  /\ response.status_code = 200
            /\ NewId(response) = request.data_id \o <<"_cleaned_", "drop_missing">>
            /\ NewId(response) \in DOMAIN data_store
            /\ data_store[NewId(response)] = [source EXCEPT !.rows = kept]
            /\ response.body[1].message.rows_removed
                  = Some(Len(source.rows) - Len(kept))
            /\ response.body[1].original_shape[1] - response.body[1].new_shape[1]
                  = Len(source.rows) - Len(kept)

\* The call removed a row and kept a row whose only missing cell is text.
C9_Witness ==
    /\ DropMissingCall
    /\ response.status_code = 200
    /\ Len(data_store[NewId(response)].rows) < Len(data_store[request.data_id].rows)
    /\ \E row \in Range(data_store[NewId(response)].rows) :
          row[3] = NaN /\ row[1] # NaN /\ row[2] # NaN

\* v lies below the lower or above the upper IQR bound of vals.
OutsideIqr(vals, v) ==
    LET Q1 == quantile4(vals, 1)
        Q3 == quantile4(vals, 3)
    IN  \/ 8 * v < 2 * Q1 - 3 * (Q3 - Q1)
        \/ 8 * v > 2 * Q3 + 3 * (Q3 - Q1)

\* |v - mean| / std >= threshold, for a sample whose std is defined and not 0.
OutsideZscore(vals, v, threshold) ==
    LET n == Len(vals)
        S == SumSeq(vals)
        dev == SumSeq([i \in 1..n |-> (n * vals[i] - S) * (n * vals[i] - S)])
    IN  /\ n >= 2
        /\ dev > 0
        /\ \/ threshold <= 0
           \/ (n * v - S) * (n * v - S) * (n - 1) >= threshold * threshold * dev

Outside(df, method, col, threshold, row) ==
    /\ ~isna(row[ColIdx(df, col)])
    /\ IF method = "iqr"
       THEN OutsideIqr(Values(df, col), row[ColIdx(df, col)].v)
       ELSE OutsideZscore(Values(df, col), row[ColIdx(df, col)].v, threshold)

\* The table left when each targeted column the table holds, in the order
\* given, removes the rows outside its bounds on the table reduced so far.
RECURSIVE WithoutOutside(_, _, _, _)
WithoutOutside(df, method, cols, threshold) ==
    IF cols = << >> THEN df
    ELSE IF ~HasColumn(df, cols[1])
         THEN WithoutOutside(df, method, Tail(cols), threshold)
         ELSE WithoutOutside(
                [df EXCEPT !.rows = SelectSeq(df.rows,
                    LAMBDA row : ~Outside(df, method, cols[1], threshold, row))],
                method, Tail(cols), threshold)

\* C10: remove-outliers filters column by column in the order given, on the
\* table reduced so far, skips absent columns, removes exactly the rows
\* outside a targeted column's bounds, and reports source rows minus
\* derived rows.
C10_RemovesExactlyOutside ==
    (/\ request.endpoint = "remove-outliers"
     /\ request.method \in {"iqr", "zscore"}
     /\ request.data_id \in DOMAIN data_store)
        => /\ response.status_code = 200
           /\ data_store[NewId(response)]
                 = WithoutOutside(data_store[request.data_id], request.method,
                                  request.columns,
                                  IF request.threshold # None /\ request.threshold[1] # 0
                                  THEN request.threshold[1] ELSE 3)
           /\ response.body[1].outliers_removed
                 = Len(data_store[request.data_id].rows)
                     - Len(data_store[NewId(response)].rows)

=============================================================================
